---- MODULE Spec2Model ----
(***************************************************************************)
(* Model of src/main.rs: the I Ching divination demo.                      *)
(*                                                                         *)
(* A Rust String / &str is modelled as the sequence of its Unicode scalar  *)
(* values (chars), so concatenation is \o and text equality is sequence    *)
(* equality.  A Rust array [T; n], indexed 0..n-1, is a sequence indexed   *)
(* 1..n: lines[k] in the source is lines[k + 1] here.                      *)
(***************************************************************************)
EXTENDS Integers, Sequences, FiniteSets, TLC

\* Frames (calls of update) explored per run.
MaxFrames == 2

\* enum Yao { Yin, Yang }
Yao == {"Yin", "Yang"}

\* Option<T>
None == [some |-> FALSE]

Some(v) == [some |-> TRUE, value |-> v]

\* The ranges handed to rng.gen_range in generate_result.
LowerRange == 1..8

UpperRange == 1..8

MovingLineRangeZero == 0..6

MovingLineRange == 1..6

\* (x - 1) as usize on a u8: a wrapped difference (a debug build panics on
\* the wrap itself, a release build on the index 255 that follows).
U8Sub1(x) == (x - 1) % 256

(***************************************************************************)
(* trigram_by_index                                                        *)
(***************************************************************************)
TrigramRow(i) ==
    CASE i = 1 -> [index |-> 1, name |-> <<20094>>, symbol |-> <<9776>>, lines |-> <<"Yang", "Yang", "Yang">>]
      [] i = 2 -> [index |-> 2, name |-> <<20817>>, symbol |-> <<9777>>, lines |-> <<"Yang", "Yang", "Yin">>]
      [] i = 3 -> [index |-> 3, name |-> <<31163>>, symbol |-> <<9778>>, lines |-> <<"Yang", "Yin", "Yang">>]
      [] i = 4 -> [index |-> 4, name |-> <<38663>>, symbol |-> <<9779>>, lines |-> <<"Yang", "Yin", "Yin">>]
      [] i = 5 -> [index |-> 5, name |-> <<24061>>, symbol |-> <<9780>>, lines |-> <<"Yin", "Yang", "Yang">>]
      [] i = 6 -> [index |-> 6, name |-> <<22350>>, symbol |-> <<9781>>, lines |-> <<"Yin", "Yang", "Yin">>]
      [] i = 7 -> [index |-> 7, name |-> <<33390>>, symbol |-> <<9782>>, lines |-> <<"Yin", "Yin", "Yang">>]
      [] OTHER -> [index |-> 8, name |-> <<22372>>, symbol |-> <<9783>>, lines |-> <<"Yin", "Yin", "Yin">>]

\* Mutant: every row written top-to-bottom instead of bottom-to-top.
trigram_by_index_topdown(i) ==
    LET t == TrigramRow(i)
    IN  [t EXCEPT !.lines = <<t.lines[3], t.lines[2], t.lines[1]>>]

trigram_by_index(i) == TrigramRow(i)

(***************************************************************************)
(* fallback_hexagram                                                       *)
(***************************************************************************)
FallbackText(name, symbol) ==
    [ name        |-> name,
      symbol      |-> symbol,
      gua_ci      |-> <<35813, 21350, 21350, 36766, 24453, 34917, 20840, 12290>>,
      yao_ci      |-> << <<21021, 29243, 29243, 36766, 24453, 34917, 20840, 12290>>,
                         <<20108, 29243, 29243, 36766, 24453, 34917, 20840, 12290>>,
                         <<19977, 29243, 29243, 36766, 24453, 34917, 20840, 12290>>,
                         <<22235, 29243, 29243, 36766, 24453, 34917, 20840, 12290>>,
                         <<20116, 29243, 29243, 36766, 24453, 34917, 20840, 12290>>,
                         <<19978, 29243, 29243, 36766, 24453, 34917, 20840, 12290>> >>,
      yi_zhuan    |-> <<26131, 20256, 20869, 23481, 24453, 34917, 20840, 12290>>,
      xi_ci_zhuan |-> <<31995, 36766, 20256, 20869, 23481, 24453, 34917, 20840, 12290>>,
      xiang_zhuan |-> <<35937, 20256, 20869, 23481, 24453, 34917, 20840, 12290>> ]

\* Mutant: the two trigrams taken in the wrong order.
fallback_hexagram_swapped(lower, upper) ==
    FallbackText(<<19978>> \o lower.name \o <<19979>> \o upper.name,
                 lower.symbol \o upper.symbol)

\* format!("上{}下{}", upper.name, lower.name),
\* format!("{}{}", upper.symbol, lower.symbol)
fallback_hexagram(lower, upper) ==
    FallbackText(<<19978>> \o upper.name \o <<19979>> \o lower.name,
                 upper.symbol \o lower.symbol)

(***************************************************************************)
(* build_hexagram_table                                                    *)
(***************************************************************************)
HexagramQian ==
    [ name        |-> <<20094>>,
      symbol      |-> <<19904>>,
      gua_ci      |-> <<20803, 20136, 21033, 36126, 12290>>,
      yao_ci      |-> << <<21021, 20061, 65306, 28508, 40857, 21247, 29992, 12290>>,
                         <<20061, 20108, 65306, 35265, 40857, 22312, 30000, 65292, 21033, 35265, 22823, 20154, 12290>>,
                         <<20061, 19977, 65306, 21531, 23376, 32456, 26085, 20094, 20094, 65292, 22805, 24789, 33509, 65292, 21385, 26080, 21646, 12290>>,
                         <<20061, 22235, 65306, 25110, 36291, 22312, 28170, 65292, 26080, 21646, 12290>>,
                         <<20061, 20116, 65306, 39134, 40857, 22312, 22825, 65292, 21033, 35265, 22823, 20154, 12290>>,
                         <<19978, 20061, 65306, 20130, 40857, 26377, 24724, 12290>> >>,
      yi_zhuan    |-> <<12298, 24406, 12299, 65306, 22823, 21705, 20094, 20803, 65292, 19975, 29289, 36164, 22987, 65292, 20035, 32479, 22825, 12290>>,
      xi_ci_zhuan |-> <<12298, 31995, 36766, 12299, 65306, 20094, 20197, 26131, 30693, 12290>>,
      xiang_zhuan |-> <<12298, 35937, 12299, 65306, 22825, 34892, 20581, 65292, 21531, 23376, 20197, 33258, 24378, 19981, 24687, 12290>> ]

HexagramKun ==
    [ name        |-> <<22372>>,
      symbol      |-> <<19905>>,
      gua_ci      |-> <<20803, 20136, 65292, 21033, 29277, 39532, 20043, 36126, 12290, 21531, 23376, 26377, 25912, 24448, 65292, 20808, 36855, 21518, 24471, 20027, 65292, 21033, 12290, 35199, 21335, 24471, 26379, 65292, 19996, 21271, 20007, 26379, 12290, 23433, 36126, 21513, 12290>>,
      yao_ci      |-> << <<21021, 20845, 65306, 23653, 38684, 65292, 22362, 20912, 33267, 12290>>,
                         <<20845, 20108, 65306, 30452, 26041, 22823, 65292, 19981, 20064, 26080, 19981, 21033, 12290>>,
                         <<20845, 19977, 65306, 21547, 31456, 21487, 36126, 12290, 25110, 20174, 29579, 20107, 65292, 26080, 25104, 26377, 32456, 12290>>,
                         <<20845, 22235, 65306, 25324, 22218, 65307, 26080, 21646, 65292, 26080, 35465, 12290>>,
                         <<20845, 20116, 65306, 40644, 35059, 65292, 20803, 21513, 12290>>,
                         <<19978, 20845, 65306, 40857, 25112, 20110, 37326, 65292, 20854, 34880, 29572, 40644, 12290>> >>,
      yi_zhuan    |-> <<12298, 24406, 12299, 65306, 33267, 21705, 22372, 20803, 65292, 19975, 29289, 36164, 29983, 65292, 20035, 39034, 25215, 22825, 12290>>,
      xi_ci_zhuan |-> <<12298, 31995, 36766, 12299, 65306, 22372, 20197, 31616, 33021, 12290>>,
      xiang_zhuan |-> <<12298, 35937, 12299, 65306, 22320, 21183, 22372, 65292, 21531, 23376, 20197, 21402, 24503, 36733, 29289, 12290>> ]

HexagramKan ==
    [ name        |-> <<22350>>,
      symbol      |-> <<19932>>,
      gua_ci      |-> <<20064, 22350, 65292, 26377, 23386, 65292, 32500, 24515, 20136, 65292, 34892, 26377, 23578, 12290>>,
      yao_ci      |-> << <<21021, 20845, 65306, 20064, 22350, 65292, 20837, 20110, 22350, 31390, 65292, 20982, 12290>>,
                         <<20061, 20108, 65306, 22350, 26377, 38505, 65292, 27714, 23567, 24471, 12290>>,
                         <<20845, 19977, 65306, 26469, 20043, 22350, 22350, 65292, 38505, 19988, 26517, 65292, 20837, 20110, 22350, 31390, 65292, 21247, 29992, 12290>>,
                         <<20845, 22235, 65306, 27197, 37202, 31755, 36144, 65292, 29992, 32566, 65292, 32435, 32422, 33258, 29270, 65292, 32456, 26080, 21646, 12290>>,
                         <<20061, 20116, 65306, 22350, 19981, 30408, 65292, 31063, 26082, 24179, 65292, 26080, 21646, 12290>>,
                         <<19978, 20845, 65306, 31995, 29992, 24509, 32390, 65292, 23512, 20110, 19995, 26840, 65292, 19977, 23681, 19981, 24471, 65292, 20982, 12290>> >>,
      yi_zhuan    |-> <<12298, 24406, 12299, 65306, 20064, 22350, 65292, 37325, 38505, 20063, 12290>>,
      xi_ci_zhuan |-> <<12298, 31995, 36766, 12299, 65306, 22350, 65292, 38519, 20063, 12290>>,
      xiang_zhuan |-> <<12298, 35937, 12299, 65306, 27700, 27914, 33267, 65292, 20064, 22350, 12290, 21531, 23376, 20197, 24120, 24503, 34892, 65292, 20064, 25945, 20107, 12290>> ]

HexagramLi ==
    [ name        |-> <<31163>>,
      symbol      |-> <<19933>>,
      gua_ci      |-> <<21033, 36126, 65292, 20136, 12290, 30044, 29277, 29275, 65292, 21513, 12290>>,
      yao_ci      |-> << <<21021, 20061, 65306, 23653, 38169, 28982, 65292, 25964, 20043, 26080, 21646, 12290>>,
                         <<20845, 20108, 65306, 40644, 31163, 65292, 20803, 21513, 12290>>,
                         <<20061, 19977, 65306, 26085, 26115, 20043, 31163, 65292, 19981, 40723, 32566, 32780, 27468, 65292, 21017, 22823, 32779, 20043, 21983, 65292, 20982, 12290>>,
                         <<20061, 22235, 65306, 31361, 22914, 20854, 26469, 22914, 65292, 28954, 22914, 65292, 27515, 22914, 65292, 24323, 22914, 12290>>,
                         <<20845, 20116, 65306, 20986, 28053, 27825, 33509, 65292, 25114, 21983, 33509, 65292, 21513, 12290>>,
                         <<19978, 20061, 65306, 29579, 29992, 20986, 24449, 65292, 26377, 22025, 25240, 39318, 65292, 33719, 21290, 20854, 19985, 65292, 26080, 21646, 12290>> >>,
      yi_zhuan    |-> <<12298, 24406, 12299, 65306, 31163, 65292, 20029, 20063, 65307, 26085, 26376, 20029, 20046, 22825, 65292, 30334, 35895, 33609, 26408, 20029, 20046, 22303, 12290>>,
      xi_ci_zhuan |-> <<12298, 31995, 36766, 12299, 65306, 31163, 65292, 38468, 20063, 12290>>,
      xiang_zhuan |-> <<12298, 35937, 12299, 65306, 26126, 20004, 20316, 65292, 31163, 12290, 22823, 20154, 20197, 32487, 26126, 29031, 20110, 22235, 26041, 12290>> ]

\* Mutant: the (3, 3) insertion left out.
build_hexagram_table_short ==
    (<<1, 1>> :> HexagramQian) @@ (<<8, 8>> :> HexagramKun) @@
    (<<6, 6>> :> HexagramKan)

\* Mutant: the records of (1, 1) and (8, 8) pasted under each other's key.
build_hexagram_table_crossed ==
    (<<1, 1>> :> HexagramKun) @@ (<<8, 8>> :> HexagramQian) @@
    (<<6, 6>> :> HexagramKan) @@ (<<3, 3>> :> HexagramLi)

\* Four map.insert calls; the key is (upper, lower).
build_hexagram_table ==
    (<<1, 1>> :> HexagramQian) @@ (<<8, 8>> :> HexagramKun) @@
    (<<6, 6>> :> HexagramKan) @@ (<<3, 3>> :> HexagramLi)

(***************************************************************************)
(* generate_result                                                         *)
(***************************************************************************)
\* Mutant: the key built as (lower, upper).
lookup_key_swapped(lower_idx, upper_idx) == <<lower_idx, upper_idx>>

\* The key of table.get(&(upper_idx, lower_idx)).
lookup_key(lower_idx, upper_idx) == <<upper_idx, lower_idx>>

\* table.get(&key).cloned().unwrap_or_else(|| fallback_hexagram(lower, upper))
lookup_or_fallback(tbl, key, lower, upper) ==
    IF key \in DOMAIN tbl THEN tbl[key] ELSE fallback_hexagram(lower, upper)

Flip(y) == IF y = "Yin" THEN "Yang" ELSE "Yin"

\* Mutant: the upper trigram written into lines[0..3], the lower above it.
generate_result_upper_first(tbl, lower_idx, upper_idx, moving_line) ==
    LET lower == trigram_by_index(lower_idx)
        upper == trigram_by_index(upper_idx)
    IN  [ lower       |-> lower,
          upper       |-> upper,
          moving_line |-> moving_line,
          lines       |-> upper.lines \o lower.lines,
          hexagram    |-> lookup_or_fallback(tbl, lookup_key(lower_idx, upper_idx), lower, upper) ]

\* Mutant: the moving line is "changed" (flipped) in the composed lines.
generate_result_changing(tbl, lower_idx, upper_idx, moving_line) ==
    LET lower == trigram_by_index(lower_idx)
        upper == trigram_by_index(upper_idx)
        lines == lower.lines \o upper.lines
    IN  [ lower       |-> lower,
          upper       |-> upper,
          moving_line |-> moving_line,
          lines       |-> [k \in 1..6 |-> IF k = moving_line THEN Flip(lines[k]) ELSE lines[k]],
          hexagram    |-> lookup_or_fallback(tbl, lookup_key(lower_idx, upper_idx), lower, upper) ]

\* generate_result with the three random draws as parameters.
generate_result(tbl, lower_idx, upper_idx, moving_line) ==
    LET lower == trigram_by_index(lower_idx)
        upper == trigram_by_index(upper_idx)
        lines == << lower.lines[1], lower.lines[2], lower.lines[3],
                    upper.lines[1], upper.lines[2], upper.lines[3] >>
    IN  [ lower       |-> lower,
          upper       |-> upper,
          moving_line |-> moving_line,
          lines       |-> lines,
          hexagram    |-> lookup_or_fallback(tbl, lookup_key(lower_idx, upper_idx), lower, upper) ]

(***************************************************************************)
(* Rendering                                                               *)
(***************************************************************************)
\* render_hexagram_lines: rows from line 6 down to line 1, the moving line marked.
render_hexagram_lines(r) ==
    [ k \in 1..6 |->
        LET line_no == 7 - k
            idx     == line_no - 1
        IN  [ line |-> r.lines[idx + 1], main |-> (line_no = r.moving_line) ] ]

\* The index of result.hexagram.yao_ci[(result.moving_line - 1) as usize].
yao_ci_index(r) == U8Sub1(r.moving_line)

\* The indexing panics when the index is outside the array.
render_panics(r) == yao_ci_index(r) \notin 0..5

\* What a frame shows for the held result.
render(res) ==
    IF res.some
    THEN LET r == res.value
         IN  [ kind        |-> "result",
               lower_idx   |-> r.lower.index,
               upper_idx   |-> r.upper.index,
               moving_line |-> r.moving_line,
               name        |-> r.hexagram.name,
               symbol      |-> r.hexagram.symbol,
               rows        |-> render_hexagram_lines(r),
               gua_ci      |-> r.hexagram.gua_ci,
               yao_idx     |-> yao_ci_index(r),
               yao_ci      |-> r.hexagram.yao_ci[yao_ci_index(r) + 1] ]
    ELSE [ kind |-> "prompt" ]

(***************************************************************************)
(* State                                                                   *)
(***************************************************************************)
VARIABLES
    result,    \* AppState.result : Option<DivinationResult>
    table,     \* AppState.table  : HashMap<(u8, u8), HexagramData>
    panicked,  \* the process died of a panic
    shown,     \* what the last completed frame displayed
    clicked,   \* whether the button was clicked in the last frame
    drawn,     \* the locals of the last generate_result call
    draws,     \* number of generate_result calls so far
    frames     \* number of update calls so far

vars == <<result, table, panicked, shown, clicked, drawn, draws, frames>>

\* main: AppState { result: None, table: build_hexagram_table() }
Init ==
    /\ result = None
    /\ table = build_hexagram_table
    /\ panicked = FALSE
    /\ shown = [kind |-> "none"]
    /\ clicked = FALSE
    /\ drawn = None
    /\ draws = 0
    /\ frames = 0

\* Mutant: the result is only set while none is held.
update_result_once(held, r) == IF held.some THEN held ELSE Some(r)

\* self.result = Some(generate_result(&self.table))
update_result(held, r) == Some(r)

\* The rest of update after the button: the display of self.result.
Display(res) ==
    IF res.some /\ render_panics(res.value)
    THEN /\ panicked' = TRUE
         /\ UNCHANGED shown
    ELSE /\ panicked' = FALSE
         /\ shown' = render(res)

\* Mutant: a missing record is inserted into the table by the draw.
update_clicked_caching(lower_idx, upper_idx, moving_line) ==
    /\ ~panicked
    /\ frames < MaxFrames
    /\ LET r == generate_result(table, lower_idx, upper_idx, moving_line)
           key == lookup_key(lower_idx, upper_idx)
       IN  /\ result' = update_result(result, r)
           /\ table' = (key :> r.hexagram) @@ table
           /\ drawn' = Some([ lower_idx |-> lower_idx, upper_idx |-> upper_idx,
                              moving_line |-> moving_line, key |-> key ])
           /\ Display(update_result(result, r))
    /\ clicked' = TRUE
    /\ draws' = draws + 1
    /\ frames' = frames + 1

\* update, the button clicked: one draw, then the display.
update_clicked(lower_idx, upper_idx, moving_line) ==
    /\ ~panicked
    /\ frames < MaxFrames
    /\ LET r == generate_result(table, lower_idx, upper_idx, moving_line)
       IN  /\ result' = update_result(result, r)
           /\ drawn' = Some([ lower_idx |-> lower_idx, upper_idx |-> upper_idx,
                              moving_line |-> moving_line,
                              key |-> lookup_key(lower_idx, upper_idx) ])
           /\ Display(update_result(result, r))
    /\ clicked' = TRUE
    /\ draws' = draws + 1
    /\ frames' = frames + 1
    /\ UNCHANGED table

\* update, the button not clicked: the display only.
update_idle ==
    /\ ~panicked
    /\ frames < MaxFrames
    /\ Display(result)
    /\ clicked' = FALSE
    /\ frames' = frames + 1
    /\ UNCHANGED <<result, table, drawn, draws>>

Generate ==
    \E lower_idx \in LowerRange, upper_idx \in UpperRange, moving_line \in MovingLineRange :
        update_clicked(lower_idx, upper_idx, moving_line)

Next == Generate \/ update_idle

Spec == Init /\ [][Next]_vars

(***************************************************************************)
(* Properties                                                              *)
(***************************************************************************)
\* The held result and the draws that produced it.
R == result.value

D == drawn.value

IsPrefix(p, s) == Len(p) <= Len(s) /\ SubSeq(s, 1, Len(p)) = p

NonEmpty(s) == Len(s) > 0

\* C1: composition law.  For every draw the six lines are the lower trigram's
\* three lines followed by the upper trigram's three lines, both bottom to
\* top, and result.lower / result.upper are the trigrams of lower_id / upper_id.
C1_Composition ==
    result.some =>
        /\ Len(R.lines) = 6
        /\ R.lower = trigram_by_index(D.lower_idx)
        /\ R.upper = trigram_by_index(D.upper_idx)
        /\ SubSeq(R.lines, 1, 3) = trigram_by_index(D.lower_idx).lines
        /\ SubSeq(R.lines, 4, 6) = trigram_by_index(D.upper_idx).lines
        /\ \A k \in 1..3 : R.lines[k] = R.lower.lines[k] /\ R.lines[k + 3] = R.upper.lines[k]

C1_Witness ==
    /\ result.some
    /\ D.lower_idx = 2 /\ D.upper_idx = 5
    /\ R.lines = <<"Yang", "Yang", "Yin", "Yin", "Yang", "Yang">>

\* C2: the catalog is consulted with the key (upper_id, lower_id), never
\* (lower_id, upper_id); a present key yields the record stored under it and
\* the fallback record is used only when the key is absent.
C2_KeyOrder ==
    result.some =>
        /\ D.key = <<D.upper_idx, D.lower_idx>>
        /\ (D.lower_idx # D.upper_idx => D.key # <<D.lower_idx, D.upper_idx>>)
        /\ (<<D.upper_idx, D.lower_idx>> \in DOMAIN table
              => R.hexagram = table[<<D.upper_idx, D.lower_idx>>])
        /\ (R.hexagram = fallback_hexagram(R.lower, R.upper)
              <=> <<D.upper_idx, D.lower_idx>> \notin DOMAIN table)

C2_Witness ==
    /\ result.some
    /\ D.lower_idx = 2 /\ D.upper_idx = 5
    /\ D.key = <<5, 2>>
    /\ R.hexagram = fallback_hexagram(R.lower, R.upper)

\* The canonical table: S = "Yang", B = "Yin", bottom to top.
CanonicalLines ==
    << <<"Yang", "Yang", "Yang">>, <<"Yang", "Yang", "Yin">>,
       <<"Yang", "Yin", "Yang">>,  <<"Yang", "Yin", "Yin">>,
       <<"Yin", "Yang", "Yang">>,  <<"Yin", "Yang", "Yin">>,
       <<"Yin", "Yin", "Yang">>,   <<"Yin", "Yin", "Yin">> >>

\* C3: for every id in 1..8 trigram_by_index(id) has identity id and the
\* canonical three lines; the eight line sequences are pairwise distinct and
\* cover all eight three-line combinations.
C3_TrigramTable ==
    /\ \A i \in 1..8 :
          /\ trigram_by_index(i).index = i
          /\ Len(trigram_by_index(i).lines) = 3
          /\ trigram_by_index(i).lines = CanonicalLines[i]
    /\ \A i, j \in 1..8 :
          i # j => trigram_by_index(i).lines # trigram_by_index(j).lines
    /\ {trigram_by_index(i).lines : i \in 1..8} = [1..3 -> Yao]
    /\ result.some =>
          /\ R.lower.index = D.lower_idx /\ R.lower.lines = CanonicalLines[D.lower_idx]
          /\ R.upper.index = D.upper_idx /\ R.upper.lines = CanonicalLines[D.upper_idx]
          /\ (R.lower.lines = R.upper.lines => D.lower_idx = D.upper_idx)

C3_Witness ==
    /\ result.some
    /\ D.lower_idx = 2 /\ R.lower.index = 2 /\ R.lower.lines = <<"Yang", "Yang", "Yin">>
    /\ D.upper_idx = 7 /\ R.upper.index = 7 /\ R.upper.lines = <<"Yin", "Yin", "Yang">>

\* C4: for a pair absent from the catalog the fallback record's name is
\* "上" + upper name + "下" + lower name, its glyph is the upper glyph followed
\* by the lower glyph, both are the same for all six moving lines and whatever
\* was drawn before, and its six line texts are pairwise distinct.
C4_Fallback ==
    (result.some /\ <<D.upper_idx, D.lower_idx>> \notin DOMAIN table) =>
        /\ R.hexagram.name =
              <<19978>> \o trigram_by_index(D.upper_idx).name \o
              <<19979>> \o trigram_by_index(D.lower_idx).name
        /\ R.hexagram.symbol =
              trigram_by_index(D.upper_idx).symbol \o trigram_by_index(D.lower_idx).symbol
        /\ \A m \in MovingLineRange :
              LET h == generate_result(table, D.lower_idx, D.upper_idx, m).hexagram
              IN  h.name = R.hexagram.name /\ h.symbol = R.hexagram.symbol
        /\ Len(R.hexagram.yao_ci) = 6
        /\ \A i, j \in 1..6 : i # j => R.hexagram.yao_ci[i] # R.hexagram.yao_ci[j]

C4_Witness ==
    /\ result.some
    /\ draws >= 2
    /\ D.lower_idx = 2 /\ D.upper_idx = 5
    /\ R.hexagram.name = <<19978, 24061, 19979, 20817>>
    /\ R.hexagram.symbol = <<9780, 9777>>

\* C5: a held result has moving_line in 1..6, so the displayed line-text index
\* moving_line - 1 is in 0..5; the moving line does not affect the trigrams,
\* the six lines or the hexagram record resolved.
C5_MovingLine ==
    result.some =>
        /\ R.moving_line \in 1..6
        /\ R.moving_line = D.moving_line
        /\ yao_ci_index(R) = R.moving_line - 1
        /\ yao_ci_index(R) \in 0..5
        /\ (shown.kind = "result" => shown.yao_idx \in 0..5)
        /\ \A m \in 1..6 :
              LET r2 == generate_result(table, D.lower_idx, D.upper_idx, m)
              IN  /\ r2.lower = R.lower
                  /\ r2.upper = R.upper
                  /\ r2.lines = R.lines
                  /\ r2.hexagram = R.hexagram

C5_Witness ==
    /\ result.some
    /\ R.moving_line = 6
    /\ shown.kind = "result" /\ shown.yao_idx = 5
    /\ shown.yao_ci = R.hexagram.yao_ci[6]

\* C6: no result is held before the first draw; a frame with a click makes
\* exactly one draw and the held result becomes that draw's return value; a
\* frame without a click leaves the held result alone; a held result is never
\* replaced by none.
C6_ReplaceWholesale ==
    [][ /\ (draws = 0 <=> ~result.some)
        /\ (draws' = 0 <=> ~result'.some)
        /\ (clicked' =>
              /\ draws' = draws + 1
              /\ result' = Some(generate_result(table, drawn'.value.lower_idx,
                                                drawn'.value.upper_idx,
                                                drawn'.value.moving_line)))
        /\ (~clicked' => draws' = draws /\ result' = result /\ drawn' = drawn)
        /\ (result.some => result'.some) ]_vars

C6_Witness ==
    /\ draws = 2 /\ frames = 2 /\ clicked
    /\ result.some
    /\ result = Some(generate_result(table, 4, 6, 3))

\* C7: the catalog is built at startup and never mutated: every step leaves
\* it equal to the constructed table, so a lookup of any key gives the same
\* record before and after any step.
C7_CatalogImmutable ==
    [][ /\ table = build_hexagram_table
        /\ table' = table
        /\ DOMAIN table' = DOMAIN table
        /\ \A key \in DOMAIN table : table'[key] = table[key] ]_vars

C7_Witness ==
    /\ draws >= 2
    /\ result.some
    /\ D.key \notin DOMAIN table
    /\ table = build_hexagram_table

Trigrams == {trigram_by_index(i) : i \in 1..8}

Complete(r) ==
    /\ r.lower \in Trigrams /\ Len(r.lower.lines) = 3
    /\ r.upper \in Trigrams /\ Len(r.upper.lines) = 3
    /\ Len(r.lines) = 6 /\ \A k \in 1..6 : r.lines[k] \in Yao
    /\ r.moving_line \in 1..6
    /\ NonEmpty(r.hexagram.name) /\ NonEmpty(r.hexagram.symbol)
    /\ NonEmpty(r.hexagram.gua_ci)
    /\ Len(r.hexagram.yao_ci) = 6
    /\ \A k \in 1..6 : NonEmpty(r.hexagram.yao_ci[k])
    /\ NonEmpty(r.hexagram.yi_zhuan)
    /\ NonEmpty(r.hexagram.xi_ci_zhuan)
    /\ NonEmpty(r.hexagram.xiang_zhuan)

\* C8: nothing fails: the process never panics, every draw returns a complete
\* result that the frame displays, and a missing key gives the fallback record.
C8_NoFailure ==
    /\ ~panicked
    /\ (draws > 0 => result.some)
    /\ result.some =>
          /\ Complete(R)
          /\ (frames > 0 => shown.kind = "result")
          /\ (D.key \notin DOMAIN table => R.hexagram = fallback_hexagram(R.lower, R.upper))

C8_Witness ==
    /\ result.some /\ ~panicked
    /\ D.moving_line = 1
    /\ D.key \notin DOMAIN table
    /\ shown.kind = "result" /\ shown.yao_idx = 0
    /\ R.hexagram.gua_ci = <<35813, 21350, 21350, 36766, 24453, 34917, 20840, 12290>>

\* C9: lower = upper = 1 gives two Qian trigrams, six Yang lines and the
\* record under (1,1): name "乾", glyph "䷀", judgment "元亨利贞。";
\* lower = upper = 8 gives six Yin lines and the record under (8,8): name "坤",
\* judgment beginning "元亨，利牝马之贞。"; neither is the fallback record.
C9_PureHexagrams ==
    /\ (result.some /\ D.lower_idx = 1 /\ D.upper_idx = 1) =>
          /\ R.lower.name = <<20094>> /\ R.upper.name = <<20094>>
          /\ R.lower.lines = <<"Yang", "Yang", "Yang">>
          /\ R.upper.lines = <<"Yang", "Yang", "Yang">>
          /\ R.lines = <<"Yang", "Yang", "Yang", "Yang", "Yang", "Yang">>
          /\ R.hexagram = table[<<1, 1>>]
          /\ R.hexagram.name = <<20094>>
          /\ R.hexagram.symbol = <<19904>>
          /\ R.hexagram.gua_ci = <<20803, 20136, 21033, 36126, 12290>>
          /\ R.hexagram # fallback_hexagram(R.lower, R.upper)
    /\ (result.some /\ D.lower_idx = 8 /\ D.upper_idx = 8) =>
          /\ R.lines = <<"Yin", "Yin", "Yin", "Yin", "Yin", "Yin">>
          /\ R.hexagram = table[<<8, 8>>]
          /\ R.hexagram.name = <<22372>>
          /\ IsPrefix(<<20803, 20136, 65292, 21033, 29277, 39532, 20043, 36126, 12290>>, R.hexagram.gua_ci)
          /\ R.hexagram # fallback_hexagram(R.lower, R.upper)

C9_Witness ==
    /\ result.some
    /\ D.lower_idx = 8 /\ D.upper_idx = 8
    /\ R.hexagram.name = <<22372>>
    /\ Len(R.hexagram.gua_ci) > Len(<<20803, 20136, 65292, 21033, 29277, 39532, 20043, 36126, 12290>>)

PopulatedIds == {1, 3, 6, 8}

\* C10: the catalog holds exactly the keys (1,1), (3,3), (6,6), (8,8); a draw
\* gets a stored record iff lower = upper and that id is 1, 3, 6 or 8, all
\* other draws (60 of the 64 pairs) get the fallback record, and the record
\* under (k,k) carries trigram k's name.
C10_FourKeys ==
    /\ DOMAIN table = {<<k, k>> : k \in PopulatedIds}
    /\ Cardinality(((1..8) \X (1..8)) \ DOMAIN table) = 60
    /\ \A key \in DOMAIN table : table[key].name = trigram_by_index(key[1]).name
    /\ result.some =>
          LET stored == D.lower_idx = D.upper_idx /\ D.lower_idx \in PopulatedIds
          IN  /\ stored => R.hexagram = table[<<D.upper_idx, D.lower_idx>>]
              /\ ~stored => R.hexagram = fallback_hexagram(R.lower, R.upper)
              /\ (\E key \in DOMAIN table : R.hexagram = table[key]) <=> stored

C10_Witness ==
    /\ result.some
    /\ D.lower_idx = 2 /\ D.upper_idx = 2
    /\ R.hexagram = fallback_hexagram(R.lower, R.upper)
    /\ R.hexagram.name = <<19978, 20817, 19979, 20817>>

====
